---- MODULE Spec2Model ----
(***************************************************************************)
(* Model of the PGP asset worker (worker/src/index.ts): host              *)
(* authorization, path normalization, KV cache lookup, mirror fallback    *)
(* with cache population, content-type inference and response assembly.   *)
(*                                                                         *)
(* JavaScript strings are sequences of one-character strings, so that     *)
(* split / trim / toLowerCase / endsWith / includes are computed the way  *)
(* the code computes them.  `null` and `undefined` are the one-element    *)
(* sequences Null and Undefined, which no character sequence equals.      *)
(***************************************************************************)
EXTENDS Integers, Sequences, FiniteSets, TLC

VARIABLES env, kv, req, originLog, life, probe

vars == <<env, kv, req, originLog, life, probe>>

----------------------------------------------------------------------------
(* Bounds of the model.                                                    *)

\* Number of requests that may be in flight at the same time.
MaxInFlight == 2
\* Longest raw string fed to normalizePath in SpecNormalize.
MaxPathLen == 4
\* Longest prefix put before a suffix word in SpecInfer.
MaxPrefixLen == 1

----------------------------------------------------------------------------
(* JavaScript values and string primitives.                                *)

Null == <<"null">>
Undefined == <<"undefined">>
Nullish(v) == v = Null \/ v = Undefined

NUL == "\\0"
WhiteSpace == {" ", "\t"}

\* String.prototype.toLowerCase on the ASCII letters the model uses.
LowerChar(c) ==
    CASE c = "A" -> "a" [] c = "B" -> "b" [] c = "C" -> "c" [] c = "H" -> "h"
      [] c = "I" -> "i" [] c = "L" -> "l" [] c = "O" -> "o" [] c = "P" -> "p"
      [] c = "S" -> "s" [] c = "T" -> "t" [] c = "X" -> "x" [] c = "Y" -> "y"
      [] OTHER -> c

ToLowerCase(s) == [i \in 1..Len(s) |-> LowerChar(s[i])]

RECURSIVE TrimStart(_)
TrimStart(s) ==
    IF s # <<>> /\ Head(s) \in WhiteSpace THEN TrimStart(Tail(s)) ELSE s

RECURSIVE TrimEnd(_)
TrimEnd(s) ==
    IF s # <<>> /\ s[Len(s)] \in WhiteSpace
    THEN TrimEnd(SubSeq(s, 1, Len(s) - 1))
    ELSE s

\* String.prototype.trim
Trim(s) == TrimEnd(TrimStart(s))

StartsWith(s, p) == Len(p) <= Len(s) /\ SubSeq(s, 1, Len(p)) = p

EndsWith(s, p) ==
    Len(p) <= Len(s) /\ SubSeq(s, Len(s) - Len(p) + 1, Len(s)) = p

\* String.prototype.includes
Includes(s, p) ==
    \E i \in 1..(Len(s) - Len(p) + 1) : SubSeq(s, i, i + Len(p) - 1) = p

\* String.prototype.split on a one-character separator: the sequence of the
\* pieces between separators, empty pieces kept.
RECURSIVE SplitFrom(_, _, _, _)
SplitFrom(s, sep, i, cur) ==
    IF i > Len(s) THEN <<cur>>
    ELSE IF s[i] = sep THEN <<cur>> \o SplitFrom(s, sep, i + 1, <<>>)
    ELSE SplitFrom(s, sep, i + 1, Append(cur, s[i]))

Split(s, sep) == SplitFrom(s, sep, 1, <<>>)

\* Array.prototype.filter keeping the non-empty strings
\* (filter(Boolean), filter(s => s.length > 0)).
RECURSIVE FilterNonEmpty(_)
FilterNonEmpty(xs) ==
    IF xs = <<>> THEN <<>>
    ELSE IF Head(xs) # <<>> THEN <<Head(xs)>> \o FilterNonEmpty(Tail(xs))
    ELSE FilterNonEmpty(Tail(xs))

\* Array.prototype.join
RECURSIVE Join(_, _)
Join(xs, sep) ==
    IF xs = <<>> THEN <<>>
    ELSE IF Len(xs) = 1 THEN Head(xs)
    ELSE Head(xs) \o <<sep>> \o Join(Tail(xs), sep)

\* All sequences over alphabet A of length at most n.
RECURSIVE SeqsUpTo(_, _)
SeqsUpTo(A, n) ==
    IF n = 0 THEN {<<>>}
    ELSE LET shorter == SeqsUpTo(A, n - 1)
         IN shorter \cup {Append(s, c) : s \in shorter, c \in A}

----------------------------------------------------------------------------
(* Program constants.                                                      *)

KV_CACHE_TTL_SECONDS == 60 * 60 * 24 * 30

DEFAULT_ROOT_OBJECT ==
    <<"/", "p", "u", "b", "l", "i", "c", "-", "m", "a", "s", "t", "e", "r",
      "k", "e", "y", ".", "a", "s", "c">>

DEFAULT_GITHUB_BASE ==
    <<"h", "t", "t", "p", "s", ":", "/", "/", "r", "a", "w", ".", "g", "i",
      "t", "h", "u", "b", "u", "s", "e", "r", "c", "o", "n", "t", "e", "n",
      "t", ".", "c", "o", "m", "/", "k", "a", "r", "e", "e", "m", "l", "u",
      "k", "i", "t", "o", "m", "o", "/", "p", "g", "p", "/", "m", "a", "i",
      "n">>

CORS_HEADERS ==
    [allowOrigin |-> "*",
     allowMethods |-> "GET, HEAD, OPTIONS",
     allowHeaders |-> "Accept, Accept-Encoding, Origin"]

NoCors == [allowOrigin |-> "", allowMethods |-> "", allowHeaders |-> ""]

TEXT_PLAIN ==
    <<"t", "e", "x", "t", "/", "p", "l", "a", "i", "n", ";", " ", "c", "h",
      "a", "r", "s", "e", "t", "=", "u", "t", "f", "-", "8">>

OCTET_STREAM ==
    <<"a", "p", "p", "l", "i", "c", "a", "t", "i", "o", "n", "/", "o", "c",
      "t", "e", "t", "-", "s", "t", "r", "e", "a", "m">>

TEXT_HTML == <<"t", "e", "x", "t", "/", "h", "t", "m", "l">>

W_POLICY == <<"p", "o", "l", "i", "c", "y">>
W_HOST == <<"h", "o", "s", "t">>
W_TXT == <<".", "t", "x", "t">>

----------------------------------------------------------------------------
(* Pure functions of the worker.                                           *)

\* Mutant: the empty pieces are dropped before the pieces are trimmed, so a
\* piece of whitespace survives as an empty segment.
NormSegments_FilterFirst(pathname) ==
    LET kept == FilterNonEmpty(Split(pathname, "/"))
    IN [i \in DOMAIN kept |-> Trim(kept[i])]

\* normalizePath(pathname): the Asset Key, or null.
NormSegments(pathname) ==
    LET pieces == Split(pathname, "/")
    IN FilterNonEmpty([i \in DOMAIN pieces |-> Trim(pieces[i])])

BadSegment(segment) ==
    segment = <<".">> \/ segment = <<".", ".">> \/ Includes(segment, <<NUL>>)

normalizePath(pathname) ==
    IF pathname = <<>> \/ pathname = <<"/">> THEN Null
    ELSE LET segments == NormSegments(pathname)
         IN IF Len(segments) = 0 THEN Null
            ELSE IF \E i \in DOMAIN segments : BadSegment(segments[i]) THEN Null
            ELSE <<"/">> \o Join(segments, "/")

\* inferContentType(path, upstream); upstream is Undefined when not passed.
IsTextKey(path) ==
    LET lower == ToLowerCase(path)
    IN EndsWith(lower, W_POLICY) \/ EndsWith(lower, W_HOST) \/ EndsWith(lower, W_TXT)

\* Mutant: the upstream type is consulted before the key's suffix.
inferContentType_UpstreamFirst(path, upstream) ==
    IF upstream # Undefined /\ upstream # <<>> /\ ~Includes(upstream, TEXT_HTML)
    THEN upstream
    ELSE IF IsTextKey(path) THEN TEXT_PLAIN
    ELSE OCTET_STREAM

inferContentType(path, upstream) ==
    IF IsTextKey(path) THEN TEXT_PLAIN
    ELSE IF upstream # Undefined /\ upstream # <<>> /\ ~Includes(upstream, TEXT_HTML)
         THEN upstream
    ELSE OCTET_STREAM

\* prepareMetadata(path, headers): headers.get("content-type") is Null when
\* the mirror declared none.
prepareMetadata(path, contentTypeHeader) ==
    LET upstreamType == IF contentTypeHeader = Null THEN Undefined ELSE contentTypeHeader
    IN [contentType |-> inferContentType(path, upstreamType)]

\* inferContentType of scripts/seed-kv.ts: no upstream hint.
seedInferContentType(pathname) ==
    IF IsTextKey(pathname) THEN TEXT_PLAIN ELSE OCTET_STREAM

\* isAllowedHost(request, env): hostHeader is Null when the request has no
\* Host header, allowedHosts is Undefined when ALLOWED_HOSTS is not set.
AllowedEntries(raw) ==
    LET pieces == Split(raw, ",")
    IN FilterNonEmpty([i \in DOMAIN pieces |-> ToLowerCase(Trim(pieces[i]))])

isAllowedHost(hostHeader, allowedHosts) ==
    IF allowedHosts = Undefined \/ allowedHosts = <<>> THEN TRUE
    ELSE IF hostHeader = Null \/ hostHeader = <<>> THEN FALSE
    ELSE LET allowed == AllowedEntries(allowedHosts)
         IN Len(allowed) = 0
            \/ \E i \in DOMAIN allowed : allowed[i] = ToLowerCase(hostHeader)

\* Mutant: `||` in place of `??`, so an empty ROOT_OBJECT falls back to the
\* default as an unset one does.
resolveRootObject_EmptyFallsBack(rootObject) ==
    LET root == IF rootObject = Undefined \/ Trim(rootObject) = <<>>
                THEN DEFAULT_ROOT_OBJECT ELSE Trim(rootObject)
    IN IF ~StartsWith(root, <<"/">>) THEN <<"/">> \o root
       ELSE root

\* resolveRootObject(env)
resolveRootObject(rootObject) ==
    LET root == IF rootObject = Undefined THEN DEFAULT_ROOT_OBJECT ELSE Trim(rootObject)
    IN IF root = <<>> THEN Null
       ELSE IF ~StartsWith(root, <<"/">>) THEN <<"/">> \o root
       ELSE root

\* new URL(request.url).pathname for a request target: the URL parser drops
\* tabs, removes `.` segments, lets `..` pop the segment before it, and
\* percent-encodes spaces and NUL; empty segments are kept.
UrlEncodeChar(c) ==
    IF c = " " THEN <<"%", "2", "0">>
    ELSE IF c = NUL THEN <<"%", "0", "0">>
    ELSE <<c>>

RECURSIVE UrlEncode(_)
UrlEncode(s) ==
    IF s = <<>> THEN <<>>
    ELSE IF Head(s) = "\t" THEN UrlEncode(Tail(s))
    ELSE UrlEncodeChar(Head(s)) \o UrlEncode(Tail(s))

IsSingleDot(seg) == seg = <<".">>
IsDoubleDot(seg) == seg = <<".", ".">>

RECURSIVE UrlPathSegments(_, _)
UrlPathSegments(pieces, path) ==
    IF pieces = <<>> THEN path
    ELSE LET buffer == Head(pieces)
             last == Len(pieces) = 1
             popped == IF path = <<>> THEN path ELSE SubSeq(path, 1, Len(path) - 1)
         IN IF IsDoubleDot(buffer)
            THEN UrlPathSegments(Tail(pieces), IF last THEN Append(popped, <<>>) ELSE popped)
            ELSE IF IsSingleDot(buffer)
            THEN UrlPathSegments(Tail(pieces), IF last THEN Append(path, <<>>) ELSE path)
            ELSE UrlPathSegments(Tail(pieces), Append(path, buffer))

UrlPathname(target) ==
    LET clean == UrlEncode(target)
        pieces == IF clean = <<>> THEN << <<>> >>
                  ELSE IF Head(clean) = "/" THEN Tail(Split(clean, "/"))
                  ELSE Split(clean, "/")
    IN <<"/">> \o Join(UrlPathSegments(pieces, <<>>), "/")

\* fetchFromMirror: the mirror base, and whether new URL(base + key) parses.
MirrorBase(mirrorBase) ==
    IF mirrorBase = Undefined \/ Trim(mirrorBase) = <<>> THEN DEFAULT_GITHUB_BASE
    ELSE Trim(mirrorBase)

HTTP_SCHEME == <<"h", "t", "t", "p", ":", "/", "/">>
HTTPS_SCHEME == <<"h", "t", "t", "p", "s", ":", "/", "/">>

MirrorUrlParses(mirrorBase, key) ==
    LET origin == MirrorBase(mirrorBase) \o key
    IN \/ StartsWith(origin, HTTP_SCHEME) /\ Len(origin) > Len(HTTP_SCHEME)
          /\ origin[Len(HTTP_SCHEME) + 1] # "/"
       \/ StartsWith(origin, HTTPS_SCHEME) /\ Len(origin) > Len(HTTPS_SCHEME)
          /\ origin[Len(HTTPS_SCHEME) + 1] # "/"

----------------------------------------------------------------------------
(* Responses.                                                              *)

NoBody == "<null>"
CACHE_CONTROL == "public, max-age=300, immutable"
NoHeader == <<"absent">>
\* Content-Type the Response constructor sets for a string body.
STRING_BODY_TYPE ==
    <<"t", "e", "x", "t", "/", "p", "l", "a", "i", "n", ";", "c", "h", "a",
      "r", "s", "e", "t", "=", "U", "T", "F", "-", "8">>

NoResponse ==
    [status |-> 0, body |-> NoBody, contentType |-> NoHeader,
     cacheControl |-> "", cors |-> NoCors]

\* new Response(body, { status, headers })
NewResponse(body, status, contentType, cacheControl, cors) ==
    [status |-> status, body |-> body, contentType |-> contentType,
     cacheControl |-> cacheControl, cors |-> cors]

\* new Response("text", { status }): a string body, no headers given.
TextResponse(text, status) ==
    NewResponse(text, status, STRING_BODY_TYPE, "", NoCors)

withCors(response) == [response EXCEPT !.cors = CORS_HEADERS]

handleOptions == withCors(NewResponse(NoBody, 204, NoHeader, "", NoCors))

\* A record stored without metadata reads back with metadata null; the model
\* writes it as a metadata record whose contentType is null, which
\* `metadata?.contentType ?? ...` treats the same way.
NullMetadata == [contentType |-> Null]

\* Mutant: the content type is derived from the key on every read, the
\* stored metadata is not consulted.
buildResponseHeaders_IgnoreMetadata(key, metadata, forceTextPlain) ==
    [cacheControl |-> CACHE_CONTROL, cors |-> CORS_HEADERS,
     contentType |-> IF forceTextPlain THEN TEXT_PLAIN
                     ELSE inferContentType(key, Undefined)]

\* Mutant: the forceTextPlain flag is dropped.
buildResponseHeaders_NoForce(key, metadata, forceTextPlain) ==
    [cacheControl |-> CACHE_CONTROL, cors |-> CORS_HEADERS,
     contentType |-> IF ~Nullish(metadata.contentType) THEN metadata.contentType
                     ELSE inferContentType(key, Undefined)]

\* buildResponseHeaders(key, metadata, forceTextPlain)
buildResponseHeaders(key, metadata, forceTextPlain) ==
    LET contentType ==
            IF forceTextPlain THEN TEXT_PLAIN
            ELSE IF ~Nullish(metadata.contentType)
                 THEN metadata.contentType
            ELSE inferContentType(key, Undefined)
    IN [cacheControl |-> CACHE_CONTROL, cors |-> CORS_HEADERS,
        contentType |-> contentType]

\* finalizeResponse(method, body, headers)
finalizeResponse(method, body, headers) ==
    IF method = "HEAD"
    THEN withCors(NewResponse(NoBody, 200, headers.contentType,
                              headers.cacheControl, headers.cors))
    ELSE withCors(NewResponse(body, 200, headers.contentType,
                              headers.cacheControl, headers.cors))

----------------------------------------------------------------------------
(* The request handler, split at its awaits.                               *)

Slots == 1..MaxInFlight

\* KVNamespace as a function from the stored keys to their records.
Lookup(f, k, default) == IF k \in DOMAIN f THEN f[k] ELSE default
Store(f, k, v) == [x \in DOMAIN f \cup {k} |-> IF x = k THEN v ELSE f[x]]
Remove(f, k) == [x \in DOMAIN f \ {k} |-> f[x]]
EmptyMap == [x \in {} |-> 0]

NoOrigin == [kind |-> "none", status |-> 0, contentType |-> Null, body |-> NoBody]
SeedOrigin == [kind |-> "seed", status |-> 0, contentType |-> Null, body |-> NoBody]

\* getWithMetadata on a key that is not stored: { value: null, metadata: null }.
NoRecord ==
    [value |-> NoBody, metadata |-> NullMetadata, expirationTtl |-> 0,
     source |-> NoOrigin]


NoPut ==
    [state |-> "none", key |-> Null, value |-> NoBody,
     metadata |-> NullMetadata, expirationTtl |-> 0]

IdleReq ==
    [pc |-> "idle", method |-> "", host |-> Null, target |-> <<>>,
     isRootRequest |-> FALSE, key |-> Null, cached |-> NoRecord,
     origin |-> NoOrigin, response |-> NoResponse, reads |-> 0,
     fetches |-> 0, put |-> NoPut, expiredAtRead |-> FALSE,
     aborted |-> FALSE]

\* Mutant: the method exits are taken before the host check.
Route_MethodFirst(method, host, target, e) ==
    IF method = "OPTIONS"
    THEN [response |-> handleOptions, isRootRequest |-> FALSE, key |-> Null]
    ELSE IF method # "GET" /\ method # "HEAD"
    THEN [response |-> withCors(TextResponse("Method Not Allowed", 405)),
          isRootRequest |-> FALSE, key |-> Null]
    ELSE IF ~isAllowedHost(host, e.ALLOWED_HOSTS)
    THEN [response |-> withCors(TextResponse("Forbidden host", 403)),
          isRootRequest |-> FALSE, key |-> Null]
    ELSE LET normalized == normalizePath(UrlPathname(target))
             isRootRequest == normalized = Null
             key == IF normalized # Null THEN normalized
                    ELSE resolveRootObject(e.ROOT_OBJECT)
         IN IF key = Null \/ key = <<>>
            THEN [response |-> withCors(TextResponse("Not Found", 404)),
                  isRootRequest |-> isRootRequest, key |-> Null]
            ELSE [response |-> NoResponse, isRootRequest |-> isRootRequest,
                  key |-> key]

\* Lines 35-54: the exits taken before the cache is read.  The result is the
\* terminal response, or NoResponse with the resolved key.
Route(method, host, target, e) ==
    IF ~isAllowedHost(host, e.ALLOWED_HOSTS)
    THEN [response |-> withCors(TextResponse("Forbidden host", 403)),
          isRootRequest |-> FALSE, key |-> Null]
    ELSE IF method = "OPTIONS"
    THEN [response |-> handleOptions, isRootRequest |-> FALSE, key |-> Null]
    ELSE IF method # "GET" /\ method # "HEAD"
    THEN [response |-> withCors(TextResponse("Method Not Allowed", 405)),
          isRootRequest |-> FALSE, key |-> Null]
    ELSE LET normalized == normalizePath(UrlPathname(target))
             isRootRequest == normalized = Null
             key == IF normalized # Null THEN normalized
                    ELSE resolveRootObject(e.ROOT_OBJECT)
         IN IF key = Null \/ key = <<>>
            THEN [response |-> withCors(TextResponse("Not Found", 404)),
                  isRootRequest |-> isRootRequest, key |-> Null]
            ELSE [response |-> NoResponse, isRootRequest |-> isRootRequest,
                  key |-> key]

\* Mutant: a payload that was read without metadata does not count as a hit.
CacheHit_NeedsMetadata(cached) ==
    cached.value # NoBody /\ ~Nullish(cached.metadata.contentType)

\* Lines 63-66: a cached value is truthy exactly when a record was read (an
\* ArrayBuffer is an object, also when it is empty).
CacheHit(cached) == cached.value # NoBody

HitResponse(method, key, cached, isRootRequest) ==
    finalizeResponse(method, cached.value,
                     buildResponseHeaders(key, cached.metadata, isRootRequest))

\* Lines 70-81: the exits on the origin's status, NoResponse on 2xx.
OriginOk(status) == 200 <= status /\ status <= 299

\* Mutant: an origin 404 for a non-root request is not an exit, so the
\* handler goes on to answer from it and to populate the cache.
OriginExit_Caches404(origin, isRootRequest) ==
    IF origin.status = 404 /\ isRootRequest
    THEN withCors(TextResponse("Root object missing", 500))
    ELSE IF origin.status # 404 /\ ~OriginOk(origin.status)
    THEN withCors(TextResponse("Upstream failure", 502))
    ELSE NoResponse

\* Mutant: a missing root object is answered like any missing asset.
OriginExit_Root404(origin, isRootRequest) ==
    IF origin.status = 404
    THEN withCors(TextResponse("Not Found", 404))
    ELSE IF ~OriginOk(origin.status)
    THEN withCors(TextResponse("Upstream failure", 502))
    ELSE NoResponse

OriginExit(origin, isRootRequest) ==
    IF origin.status = 404
    THEN IF ~isRootRequest THEN withCors(TextResponse("Not Found", 404))
         ELSE withCors(TextResponse("Root object missing", 500))
    ELSE IF ~OriginOk(origin.status)
    THEN withCors(TextResponse("Upstream failure", 502))
    ELSE NoResponse

\* Mutant: the put is made without expirationTtl, so the record never
\* expires.
PopulatePut_NoTtl(key, origin) ==
    [state |-> "pending", key |-> key, value |-> origin.body,
     metadata |-> prepareMetadata(key, origin.contentType),
     expirationTtl |-> 0]

\* Lines 83-92: the put handed to ctx.waitUntil.
PopulatePut(key, origin) ==
    [state |-> "pending", key |-> key, value |-> origin.body,
     metadata |-> prepareMetadata(key, origin.contentType),
     expirationTtl |-> KV_CACHE_TTL_SECONDS]

\* Lines 83-94: the response on origin success.
OriginResponse(method, key, origin, isRootRequest) ==
    finalizeResponse(method, origin.body,
        buildResponseHeaders(key, prepareMetadata(key, origin.contentType),
                             isRootRequest))

\* Mutant: the put stores the content type of the response headers, which
\* is the forced text/plain on a root request.
OriginSuccess_PutFromHeaders(method, key, origin, isRootRequest) ==
    LET headers == buildResponseHeaders(key, prepareMetadata(key, origin.contentType),
                                        isRootRequest)
    IN [response |-> OriginResponse(method, key, origin, isRootRequest),
        put |-> [PopulatePut(key, origin) EXCEPT
                    !.metadata = [contentType |-> headers.contentType]]]

\* Mutant: the put stores the body of the response, which is empty for a
\* HEAD.
OriginSuccess_HeadStoresEmpty(method, key, origin, isRootRequest) ==
    LET response == OriginResponse(method, key, origin, isRootRequest)
    IN [response |-> response,
        put |-> [PopulatePut(key, origin) EXCEPT !.value = response.body]]

\* Lines 83-94 as a whole: the response returned and the put scheduled.
OriginSuccess(method, key, origin, isRootRequest) ==
    [response |-> OriginResponse(method, key, origin, isRootRequest),
     put |-> PopulatePut(key, origin)]

----------------------------------------------------------------------------
(* Inputs: environments, stores, requests and origin answers.              *)

H_AB == <<"a", ".", "b">>
H_AB_UPPER == <<"A", ".", "B">>
H_CD == <<"c", ".", "d">>

DefaultEnv ==
    [ROOT_OBJECT |-> Undefined, GITHUB_MIRROR_BASE |-> Undefined,
     ALLOWED_HOSTS |-> Undefined]

RootObjects == {<<>>, <<" ">>, W_POLICY, <<"a", "/", "/", "b">>}
AllowLists ==
    {<<>>, <<",">>, H_AB, <<" ">> \o H_AB_UPPER \o <<" ", ",">> \o H_CD}
MirrorBases == {<<" ">>, <<"m">>}

Envs ==
    {DefaultEnv}
    \cup {[DefaultEnv EXCEPT !.ROOT_OBJECT = x] : x \in RootObjects}
    \cup {[DefaultEnv EXCEPT !.ALLOWED_HOSTS = x] : x \in AllowLists}
    \cup {[DefaultEnv EXCEPT !.GITHUB_MIRROR_BASE = x] : x \in MirrorBases}

Methods == {"GET", "HEAD", "OPTIONS", "POST"}
Hosts == {Null, H_AB, H_CD}

T_ROOT == <<"/">>
T_POLICY == <<"/">> \o W_POLICY
T_DOTDOT == <<"/", "a", "/", ".", ".", "/", "b">>
T_DOT == <<"/", ".", "/", "b">>
T_SLASHES == <<"/", "/", "/">>
Targets == {T_ROOT, DEFAULT_ROOT_OBJECT, T_POLICY, T_DOTDOT, T_DOT, T_SLASHES}

PGP_KEYS ==
    <<"a", "p", "p", "l", "i", "c", "a", "t", "i", "o", "n", "/", "p", "g",
      "p", "-", "k", "e", "y", "s">>
HTML_UTF8 == TEXT_HTML \o <<";", " ", "c", "h", "a", "r", "s", "e", "t", "=", "u", "t", "f", "-", "8">>

OriginAnswer(status, contentType, body) ==
    [kind |-> "response", status |-> status, contentType |-> contentType,
     body |-> body]
OriginThrows == [kind |-> "throw", status |-> 0, contentType |-> Null, body |-> NoBody]

OriginOutcomes ==
    {OriginAnswer(200, PGP_KEYS, "B1"), OriginAnswer(203, HTML_UTF8, "B2"),
     OriginAnswer(404, HTML_UTF8, "nf"), OriginAnswer(500, Null, "err"),
     OriginThrows}

\* The concurrent specification: GET and HEAD requests for the root object,
\* by `/` and by its own path, under the default environment.
ConcurrentMethods == {"GET", "HEAD"}
ConcurrentTargets == {T_ROOT, DEFAULT_ROOT_OBJECT}
ConcurrentOutcomes ==
    {OriginAnswer(200, PGP_KEYS, "B1"), OriginAnswer(203, HTML_UTF8, "B2"),
     OriginAnswer(404, HTML_UTF8, "nf"), OriginThrows}

\* Records as scripts/seed-kv.ts builds them and `wrangler kv bulk put`
\* stores them: no expiration.
SeedRecord(key, value) ==
    [value |-> value, metadata |-> [contentType |-> seedInferContentType(key)],
     expirationTtl |-> 0, source |-> SeedOrigin]

\* A record put by hand without metadata.
BareRecord(value) ==
    [value |-> value, metadata |-> NullMetadata, expirationTtl |-> 0,
     source |-> SeedOrigin]

InitialStores ==
    {EmptyMap,
     Store(Store(EmptyMap, DEFAULT_ROOT_OBJECT, SeedRecord(DEFAULT_ROOT_OBJECT, "S1")),
           T_POLICY, SeedRecord(T_POLICY, "S2")),
     Store(EmptyMap, DEFAULT_ROOT_OBJECT, BareRecord("S1"))}

\* Inputs of the pure functions: raw paths over a small alphabet, and keys
\* made of a short prefix and a suffix word in every mix of upper and lower
\* case.
PathAlphabet == {"/", ".", "a", " ", NUL}
RawPaths == SeqsUpTo(PathAlphabet, MaxPathLen)

UpperChar(c) ==
    CASE c = "a" -> "A" [] c = "b" -> "B" [] c = "c" -> "C" [] c = "h" -> "H"
      [] c = "i" -> "I" [] c = "l" -> "L" [] c = "o" -> "O" [] c = "p" -> "P"
      [] c = "s" -> "S" [] c = "t" -> "T" [] c = "x" -> "X" [] c = "y" -> "Y"
      [] OTHER -> c

RECURSIVE CaseVariants(_)
CaseVariants(w) ==
    IF w = <<>> THEN {<<>>}
    ELSE {<<c>> \o rest : c \in {Head(w), UpperChar(Head(w))},
                          rest \in CaseVariants(Tail(w))}

TextWords == {W_POLICY, W_HOST, W_TXT}
OtherWords == {<<".", "a", "s", "c">>, <<"p", "o", "l", "i", "c">>,
               <<"h", "o", "s", "t", "s">>, <<"t", "x", "t", ".">>}
KeyPrefixes == SeqsUpTo({"/", "a"}, MaxPrefixLen)
ContentTypeHints == {<<>>, TEXT_HTML, HTML_UTF8, PGP_KEYS}

NoProbe ==
    [fn |-> "none", stage |-> "none", arg1 |-> <<>>, arg2 |-> <<>>,
     word |-> <<>>, out |-> <<>>, again |-> <<>>]

----------------------------------------------------------------------------
(* Actions.                                                                *)

\* History of the store, kept in the behaviours of SpecLife only: the keys
\* whose record has expired and was not written since, and per stored key the
\* method and the root flag of the request whose put wrote the record.
NoLife == [on |-> FALSE, expired |-> {}, writer |-> EmptyMap]
NewLife == [NoLife EXCEPT !.on = TRUE]

Written(l, key, method, isRootRequest) ==
    IF ~l.on THEN l
    ELSE [l EXCEPT !.expired = @ \ {key},
                   !.writer = Store(@, key, [method |-> method,
                                             isRootRequest |-> isRootRequest])]

Expired(l, key) ==
    IF ~l.on THEN l
    ELSE [l EXCEPT !.expired = @ \cup {key}, !.writer = Remove(@, key)]

\* History of the origin: per key, its most recent 2xx answer.
Logged(log, key, origin) ==
    IF origin.kind = "response" /\ OriginOk(origin.status)
    THEN Store(log, key, origin)
    ELSE log

Init ==
    /\ env = DefaultEnv
    /\ kv \in InitialStores
    /\ req = [r \in Slots |-> IdleReq]
    /\ originLog = EmptyMap
    /\ life = NoLife
    /\ probe = NoProbe

\* fetch, lines 34-54: a request arrives and is routed up to the cache read.
Arrive(r, method, host, target) ==
    /\ req[r].pc = "idle"
    /\ LET route == Route(method, host, target, env)
       IN req' = [req EXCEPT ![r] =
                    [IdleReq EXCEPT !.method = method, !.host = host,
                                    !.target = target,
                                    !.isRootRequest = route.isRootRequest,
                                    !.key = route.key,
                                    !.response = route.response,
                                    !.pc = IF route.response = NoResponse
                                           THEN "read" ELSE "done"]]
    /\ UNCHANGED <<env, kv, originLog, life, probe>>

\* fetch, lines 56-66: getWithMetadata resolves; a hit is answered from it.
CacheRead(r) ==
    /\ req[r].pc = "read"
    /\ LET cached == Lookup(kv, req[r].key, NoRecord)
       IN req' = [req EXCEPT ![r].cached = cached,
                             ![r].reads = @ + 1,
                             ![r].expiredAtRead = req[r].key \in life.expired,
                             ![r].response =
                                 IF CacheHit(cached)
                                 THEN HitResponse(req[r].method, req[r].key,
                                                  cached, req[r].isRootRequest)
                                 ELSE NoResponse,
                             ![r].pc = IF CacheHit(cached) THEN "done" ELSE "fetch"]
    /\ UNCHANGED <<env, kv, originLog, life, probe>>

\* fetch, line 56: getWithMetadata rejects; nothing catches it.
CacheReadThrows(r) ==
    /\ req[r].pc = "read"
    /\ req' = [req EXCEPT ![r].reads = @ + 1, ![r].pc = "crashed"]
    /\ UNCHANGED <<env, kv, originLog, life, probe>>

\* fetchFromMirror, line 189: new URL(base + key) throws; nothing catches it.
MirrorUrlThrows(r) ==
    /\ req[r].pc = "fetch"
    /\ ~MirrorUrlParses(env.GITHUB_MIRROR_BASE, req[r].key)
    /\ req' = [req EXCEPT ![r].pc = "crashed"]
    /\ UNCHANGED <<env, kv, originLog, life, probe>>

\* fetch, lines 68-94: the mirror answers (or the fetch rejects); on 2xx the
\* put is handed to ctx.waitUntil and the response returned.
OriginFetch(r, origin) ==
    /\ req[r].pc = "fetch"
    /\ MirrorUrlParses(env.GITHUB_MIRROR_BASE, req[r].key)
    /\ originLog' = Logged(originLog, req[r].key, origin)
    /\ IF origin.kind = "throw"
       THEN req' = [req EXCEPT ![r].origin = origin, ![r].fetches = @ + 1,
                               ![r].pc = "crashed"]
       ELSE LET exit == OriginExit(origin, req[r].isRootRequest)
            IN IF exit # NoResponse
               THEN req' = [req EXCEPT ![r].origin = origin,
                                       ![r].fetches = @ + 1,
                                       ![r].response = exit,
                                       ![r].pc = "done"]
               ELSE LET success == OriginSuccess(req[r].method, req[r].key,
                                                 origin, req[r].isRootRequest)
                    IN req' = [req EXCEPT ![r].origin = origin,
                                          ![r].fetches = @ + 1,
                                          ![r].put = success.put,
                                          ![r].response = success.response,
                                          ![r].pc = "done"]
    /\ UNCHANGED <<env, kv, life, probe>>

\* The put of lines 88-91 takes effect in the store.
PutComplete(r) ==
    /\ req[r].put.state = "pending"
    /\ kv' = Store(kv, req[r].put.key,
                   [value |-> req[r].put.value, metadata |-> req[r].put.metadata,
                    expirationTtl |-> req[r].put.expirationTtl,
                    source |-> req[r].origin])
    /\ req' = [req EXCEPT ![r].put.state = "stored"]
    /\ life' = Written(life, req[r].put.key, req[r].method, req[r].isRootRequest)
    /\ UNCHANGED <<env, originLog, probe>>

\* The put of lines 88-91 rejects; ctx.waitUntil takes the rejection and
\* the store is left as it was.
PutFails(r) ==
    /\ req[r].put.state = "pending"
    /\ req' = [req EXCEPT ![r].put.state = "failed"]
    /\ UNCHANGED <<env, kv, originLog, life, probe>>

\* The client drops the connection while the response is on its way and the
\* put is still running under ctx.waitUntil: the put is not touched.
ClientAbort(r) ==
    /\ req[r].pc = "done"
    /\ req[r].put.state = "pending"
    /\ ~req[r].aborted
    /\ req' = [req EXCEPT ![r].aborted = TRUE]
    /\ UNCHANGED <<env, kv, originLog, life, probe>>

\* The store drops a record whose expirationTtl has run out.
Expire(key) ==
    /\ key \in DOMAIN kv
    /\ kv[key].expirationTtl > 0
    /\ kv' = Remove(kv, key)
    /\ life' = Expired(life, key)
    /\ UNCHANGED <<env, req, originLog, probe>>

\* Mutant: the put is not held by ctx.waitUntil, so the invocation ends,
\* and the put with it, as soon as the response is returned.
Finish_TearsDown(r) ==
    /\ req[r].pc \in {"done", "crashed"}
    /\ req' = [req EXCEPT ![r] = IdleReq]
    /\ UNCHANGED <<env, kv, originLog, life, probe>>

\* The invocation is over (response returned or error raised, and the
\* waitUntil promise settled): the slot is free for the next request.
Finish(r) ==
    /\ req[r].pc \in {"done", "crashed"}
    /\ req[r].put.state # "pending"
    /\ req' = [req EXCEPT ![r] = IdleReq]
    /\ UNCHANGED <<env, kv, originLog, life, probe>>

Next ==
    \/ \E r \in Slots, m \in ConcurrentMethods, t \in ConcurrentTargets :
          Arrive(r, m, H_AB, t)
    \/ \E r \in Slots : CacheRead(r)
    \/ \E r \in Slots : CacheReadThrows(r)
    \/ \E r \in Slots, o \in ConcurrentOutcomes : OriginFetch(r, o)
    \/ \E r \in Slots : PutComplete(r)
    \/ \E k \in DOMAIN kv : Expire(k)
    \/ \E r \in Slots : Finish(r)

\* Concurrent requests for one key.
Spec == Init /\ [][Next]_vars

InitSeq ==
    /\ env \in Envs
    /\ kv \in InitialStores
    /\ req = [r \in Slots |-> IdleReq]
    /\ originLog = EmptyMap
    /\ life = NoLife
    /\ probe = NoProbe

NextSeq ==
    \/ \E m \in Methods, h \in Hosts, t \in Targets : Arrive(1, m, h, t)
    \/ CacheRead(1)
    \/ CacheReadThrows(1)
    \/ MirrorUrlThrows(1)
    \/ \E o \in OriginOutcomes : OriginFetch(1, o)
    \/ PutComplete(1)
    \/ \E k \in DOMAIN kv : Expire(k)
    \/ Finish(1)

\* One request at a time, of every shape, under every environment.
SpecSeq == InitSeq /\ [][NextSeq]_vars

\* The origin answers of the specification with put outcomes.
LiveOutcomes == {OriginAnswer(200, PGP_KEYS, "B1"), OriginAnswer(404, HTML_UTF8, "nf")}

NextLive ==
    \/ \E r \in Slots, m \in ConcurrentMethods, t \in ConcurrentTargets :
          Arrive(r, m, H_AB, t)
    \/ \E r \in Slots : CacheRead(r)
    \/ \E r \in Slots, o \in LiveOutcomes : OriginFetch(r, o)
    \/ \E r \in Slots : PutComplete(r)
    \/ \E r \in Slots : PutFails(r)
    \/ \E r \in Slots : ClientAbort(r)
    \/ \E r \in Slots : Finish(r)

\* ctx.waitUntil keeps the invocation alive until the put has settled.
PutSettles(r) == PutComplete(r) \/ PutFails(r)

\* Concurrent requests with puts that succeed or fail and clients that drop
\* the connection; a scheduled put is run until it settles.
SpecLive ==
    Init /\ [][NextLive]_vars /\ \A r \in Slots : WF_vars(PutSettles(r))

InitLife ==
    /\ env = DefaultEnv
    /\ kv \in InitialStores
    /\ req = [r \in Slots |-> IdleReq]
    /\ originLog = EmptyMap
    /\ life = NewLife
    /\ probe = NoProbe

NextLife ==
    \/ \E m \in ConcurrentMethods, t \in ConcurrentTargets : Arrive(1, m, H_AB, t)
    \/ CacheRead(1)
    \/ \E o \in OriginOutcomes : OriginFetch(1, o)
    \/ PutComplete(1)
    \/ PutFails(1)
    \/ \E k \in DOMAIN kv : Expire(k)
    \/ Finish(1)

\* The life of one key's record: requests one after another for the root
\* object, by `/` and by its own path, with the store's history recorded.
SpecLife == InitLife /\ [][NextLife]_vars

----------------------------------------------------------------------------
(* The pure functions applied to bounded sets of inputs.                   *)

RouterAtRest ==
    /\ env = DefaultEnv
    /\ kv = EmptyMap
    /\ req = [r \in Slots |-> IdleReq]
    /\ originLog = EmptyMap
    /\ life = NoLife

InitNormalize ==
    /\ RouterAtRest
    /\ probe \in {[NoProbe EXCEPT !.fn = "normalizePath", !.stage = "input",
                                  !.arg1 = p] : p \in RawPaths}

\* normalizePath(pathname)
ProbeNormalize ==
    /\ probe.fn = "normalizePath" /\ probe.stage = "input"
    /\ probe' = [probe EXCEPT !.stage = "once", !.out = normalizePath(probe.arg1)]
    /\ UNCHANGED <<env, kv, req, originLog, life>>

\* normalizePath applied to a key it returned
ProbeRenormalize ==
    /\ probe.fn = "normalizePath" /\ probe.stage = "once"
    /\ probe.out # Null
    /\ probe' = [probe EXCEPT !.stage = "twice", !.again = normalizePath(probe.out)]
    /\ UNCHANGED <<env, kv, req, originLog, life>>

NextNormalize == ProbeNormalize \/ ProbeRenormalize

SpecNormalize == InitNormalize /\ [][NextNormalize]_vars

KeyInputs ==
    UNION {{[key |-> pre \o v, word |-> w] : pre \in KeyPrefixes,
                                             v \in CaseVariants(w)}
             : w \in TextWords \cup OtherWords}

InitInfer ==
    /\ RouterAtRest
    /\ probe \in
         {[NoProbe EXCEPT !.fn = "inferContentType", !.stage = "input",
                          !.arg1 = k.key, !.arg2 = hint, !.word = k.word]
            : k \in KeyInputs, hint \in ContentTypeHints \cup {Undefined}}
         \cup
         {[NoProbe EXCEPT !.fn = f, !.stage = "input",
                          !.arg1 = k.key, !.arg2 = hint, !.word = k.word]
            : f \in {"prepareMetadata", "put"},
              k \in KeyInputs, hint \in ContentTypeHints \cup {Null}}

\* inferContentType(path, upstream)
ProbeInfer ==
    /\ probe.fn = "inferContentType" /\ probe.stage = "input"
    /\ probe' = [probe EXCEPT !.stage = "once",
                              !.out = inferContentType(probe.arg1, probe.arg2)]
    /\ UNCHANGED <<env, kv, req, originLog, life>>

\* prepareMetadata(path, headers)
ProbePrepare ==
    /\ probe.fn = "prepareMetadata" /\ probe.stage = "input"
    /\ probe' = [probe EXCEPT !.stage = "once",
                     !.out = prepareMetadata(probe.arg1, probe.arg2).contentType]
    /\ UNCHANGED <<env, kv, req, originLog, life>>

\* The metadata of the put the router schedules for an origin answer.
ProbePut ==
    /\ probe.fn = "put" /\ probe.stage = "input"
    /\ probe' = [probe EXCEPT !.stage = "once",
                     !.out = PopulatePut(probe.arg1,
                                 OriginAnswer(200, probe.arg2, "B1")).metadata.contentType]
    /\ UNCHANGED <<env, kv, req, originLog, life>>

NextInfer == ProbeInfer \/ ProbePrepare \/ ProbePut

SpecInfer == InitInfer /\ [][NextInfer]_vars

----------------------------------------------------------------------------
(* Properties.                                                             *)

Responded(q) == q.pc = "done"
FullCors(response) == response.cors = CORS_HEADERS

\* A mirror answer "200 with body B and declared content type T, T not
\* text/html".
Answers200Typed(origin) ==
    /\ origin.kind = "response" /\ origin.status = 200
    /\ origin.contentType # Null /\ origin.contentType # <<>>
    /\ ~Includes(origin.contentType, TEXT_HTML)

DirectGet(q) == q.method = "GET" /\ ~q.isRootRequest /\ ~IsTextKey(q.key)

\* C1: a GET for a key k (not a text key, not by the root path) that misses and
\* gets 200 with body B and content type T from the mirror returns 200, B and
\* T and schedules the put of B with T under k; and every GET for k that is
\* answered from a record populated from such an answer returns 200 with the
\* same B and T and fetches nothing from the mirror.
C1_PopulateThenServeFromCache ==
    \A r \in Slots :
        LET q == req[r]
        IN /\ ( /\ Responded(q) /\ DirectGet(q)
                /\ ~CacheHit(q.cached) /\ Answers200Typed(q.origin) )
              => /\ q.response.status = 200
                 /\ q.response.body = q.origin.body
                 /\ q.response.contentType = q.origin.contentType
                 /\ q.put.state # "none"
                 /\ q.put.key = q.key
                 /\ q.put.value = q.origin.body
                 /\ q.put.metadata.contentType = q.origin.contentType
           /\ ( /\ Responded(q) /\ DirectGet(q)
                /\ CacheHit(q.cached) /\ Answers200Typed(q.cached.source) )
              => /\ q.response.status = 200
                 /\ q.response.body = q.cached.source.body
                 /\ q.response.contentType = q.cached.source.contentType
                 /\ q.fetches = 0
                 /\ q.put.state = "none"
           /\ ( q.put.state = "stored" /\ q.key \in DOMAIN kv
                /\ kv[q.key].source = q.origin )
              => /\ kv[q.key].value = q.origin.body
                 /\ kv[q.key].metadata = q.put.metadata

\* C1 witness: a GET served from the record another GET populated.
C1_Witness ==
    \E r \in Slots :
        /\ Responded(req[r]) /\ DirectGet(req[r])
        /\ CacheHit(req[r].cached)
        /\ Answers200Typed(req[r].cached.source)
        /\ req[r].response.body = "B1"
        /\ req[r].response.contentType = PGP_KEYS
        /\ req[r].fetches = 0

\* C2: the store changes only by the put of a request that missed the cache
\* and got 2xx from the origin (one record, under the request's key) or by
\* the store's own expiry; a request that ends in 204, 403, 404, 405, 500 or
\* 502, and a cache hit, schedules no put, and after an origin 404 or failure
\* the key is still not stored.
C2_NoPutOnExit ==
    \A r \in Slots :
        LET q == req[r]
        IN /\ ( Responded(q)
                /\ ( q.response.status \in {204, 403, 404, 405, 500, 502}
                     \/ CacheHit(q.cached) ) )
              => q.put.state = "none"
           /\ q.put.state # "none"
              => /\ ~CacheHit(q.cached) /\ q.reads = 1
                 /\ q.origin.kind = "response" /\ OriginOk(q.origin.status)
                 /\ q.response.status = 200
                 /\ q.put.key = q.key
           /\ ( Responded(q) /\ q.fetches = 1 /\ ~OriginOk(q.origin.status) )
              => q.key \notin DOMAIN kv

C2_StoreStep ==
    kv' # kv =>
        \/ \E k \in DOMAIN kv :
              kv[k].expirationTtl > 0 /\ kv' = Remove(kv, k) /\ req' = req
        \/ \E r \in Slots :
              /\ req[r].put.state = "pending" /\ req'[r].put.state = "stored"
              /\ ~CacheHit(req[r].cached) /\ OriginOk(req[r].origin.status)
              /\ DOMAIN kv' = DOMAIN kv \cup {req[r].key}
              /\ \A k \in DOMAIN kv \ {req[r].key} : kv'[k] = kv[k]
              /\ kv'[req[r].key].value = req[r].origin.body

C2_CacheChangesOnlyOnOriginSuccess == []C2_NoPutOnExit /\ [][C2_StoreStep]_vars

\* C2 witness: a request answered 404 from the origin, its key still absent.
C2_Witness ==
    \E r \in Slots :
        /\ Responded(req[r]) /\ req[r].response.status = 404
        /\ req[r].origin.status = 404 /\ req[r].fetches = 1
        /\ req[r].put.state = "none"
        /\ req[r].key \notin DOMAIN kv

\* C3: on a cache miss the origin is asked once, and its status decides the
\* response: 404 gives 404 (500 on a root request), any other non-2xx gives
\* 502, 2xx gives 200.
C3_OriginStatusMapping ==
    \A r \in Slots :
        LET q == req[r]
        IN /\ q.fetches <= 1
           /\ ( Responded(q) /\ q.reads = 1 /\ ~CacheHit(q.cached) )
              => q.fetches = 1 /\ q.origin.kind = "response"
           /\ ( Responded(q) /\ q.fetches = 1 )
              => /\ ( q.origin.status = 404 /\ ~q.isRootRequest )
                    => q.response.status = 404
                 /\ ( q.origin.status = 404 /\ q.isRootRequest )
                    => q.response.status = 500
                 /\ ( q.origin.status # 404
                      /\ (q.origin.status < 200 \/ q.origin.status > 299) )
                    => q.response.status = 502
                 /\ ( q.origin.status >= 200 /\ q.origin.status <= 299 )
                    => q.response.status = 200

\* C3 witness: a root request whose object the origin does not have.
C3_Witness ==
    \E r \in Slots :
        /\ Responded(req[r]) /\ req[r].isRootRequest
        /\ req[r].origin.status = 404 /\ req[r].response.status = 500

Arrived(q) == q.pc # "idle"
MappedStatuses == {200, 204, 403, 404, 405, 500, 502}

\* C4: every request ends in a response with a mapped status and the full
\* CORS header set; a failing cache read, mirror URL or mirror fetch never
\* leaves the handler as a raised error.
C4_EveryRequestAnswered ==
    \A r \in Slots :
        /\ req[r].pc # "crashed"
        /\ Responded(req[r])
           => /\ req[r].response.status \in MappedStatuses
              /\ FullCors(req[r].response)

\* C5 as claimed: the method decides the first two exits whatever the host;
\* 403 is only given to GET and HEAD.
C5_MethodDecidesFirst ==
    \A r \in Slots :
        LET q == req[r]
        IN Arrived(q) =>
            /\ q.method \notin {"GET", "HEAD", "OPTIONS"}
               => Responded(q) /\ q.response.status = 405
            /\ q.method = "OPTIONS"
               => /\ Responded(q) /\ q.response.status = 204
                  /\ FullCors(q.response) /\ q.response.body = NoBody
            /\ ( Responded(q) /\ q.response.status = 403 )
               => q.method \in {"GET", "HEAD"}

\* C5 amended: the host check comes first and answers 403 whatever the
\* method; for an admitted request the method alone decides the next two
\* exits: 405 for a method other than GET, HEAD, OPTIONS, and 204 with the
\* full CORS header set and no body for OPTIONS, for every path.
C5_HostThenMethod ==
    \A r \in Slots :
        LET q == req[r]
        IN Arrived(q) =>
            IF ~isAllowedHost(q.host, env.ALLOWED_HOSTS)
            THEN /\ Responded(q) /\ q.response.status = 403
                 /\ FullCors(q.response)
            ELSE /\ q.method \notin {"GET", "HEAD", "OPTIONS"}
                    => /\ Responded(q) /\ q.response.status = 405
                       /\ FullCors(q.response)
                 /\ q.method = "OPTIONS"
                    => /\ Responded(q) /\ q.response.status = 204
                       /\ FullCors(q.response) /\ q.response.body = NoBody
                 /\ Responded(q) => q.response.status # 403

\* C5 witness: a POST from a host that is not allowed, answered 403.
C5_Witness ==
    \E r \in Slots :
        /\ Responded(req[r]) /\ req[r].method = "POST"
        /\ req[r].response.status = 403

\* The allow-list's entries and the admission rule as the claim states them.
ClaimedAdmitted(host, allowList) ==
    IF allowList = Undefined THEN TRUE
    ELSE LET entries == AllowedEntries(allowList)
         IN IF Len(entries) = 0 THEN TRUE
            ELSE /\ host # Null
                 /\ \E i \in DOMAIN entries : entries[i] = ToLowerCase(host)

\* C6: a GET or HEAD is admitted always when the allow-list is absent or has
\* no entries, and otherwise exactly when its Host header equals an entry,
\* case-insensitively; a denied request is answered 403 without a cache
\* read, an origin fetch or a put.
C6_HostAuthorization ==
    \A r \in Slots :
        LET q == req[r]
        IN ( Arrived(q) /\ q.method \in {"GET", "HEAD"} ) =>
            IF ClaimedAdmitted(q.host, env.ALLOWED_HOSTS)
            THEN ~(Responded(q) /\ q.response.status = 403)
            ELSE /\ Responded(q) /\ q.response.status = 403
                 /\ q.reads = 0 /\ q.fetches = 0 /\ q.put.state = "none"

\* C7: with ROOT_OBJECT not set, a request to `/` reads, fetches and puts
\* under /public-masterkey.asc, the key of a direct request to that path, and
\* each of its 200 responses has Content-Type text/plain; charset=utf-8,
\* from the cache or from the origin, whatever type is stored or declared.
C7_RootIsMasterKeyAsTextPlain ==
    \A r \in Slots :
        LET q == req[r]
        IN ( /\ Arrived(q) /\ env.ROOT_OBJECT = Undefined
             /\ q.method \in {"GET", "HEAD"}
             /\ ~(Responded(q) /\ q.response.status = 403) )
           => /\ q.target = DEFAULT_ROOT_OBJECT
                 => q.key = DEFAULT_ROOT_OBJECT /\ ~q.isRootRequest
              /\ q.target = T_ROOT
                 => /\ q.isRootRequest
                    /\ q.key = DEFAULT_ROOT_OBJECT
                    /\ q.put.state # "none" => q.put.key = DEFAULT_ROOT_OBJECT
                    /\ ( CacheHit(q.cached) /\ q.cached.source = SeedOrigin )
                       => q.cached = kv[DEFAULT_ROOT_OBJECT]
                    /\ ( q.fetches = 1 /\ OriginOk(q.origin.status) )
                       => originLog[DEFAULT_ROOT_OBJECT] = q.origin
                    /\ ( Responded(q) /\ q.response.status = 200 )
                       => q.response.contentType = TEXT_PLAIN

\* C7 witness: `/` answered from a record stored as application/octet-stream.
C7_Witness ==
    \E r \in Slots :
        /\ Responded(req[r]) /\ req[r].target = T_ROOT
        /\ env.ROOT_OBJECT = Undefined
        /\ CacheHit(req[r].cached)
        /\ req[r].cached.metadata.contentType = OCTET_STREAM
        /\ req[r].response.status = 200
        /\ req[r].response.contentType = TEXT_PLAIN

HasBadSegment(target) ==
    LET pieces == Split(target, "/")
    IN \E i \in DOMAIN pieces : BadSegment(Trim(pieces[i]))

\* C8: a path with a `.` or `..` segment or a null byte in a segment is
\* rejected by normalizePath with an outcome other than the one for `/`, and
\* the request is answered 404 without being treated as a root request and
\* without a cache read.
C8_DotSegmentsRejected ==
    \A r \in Slots :
        LET q == req[r]
        IN ( /\ Arrived(q) /\ q.method \in {"GET", "HEAD"}
             /\ isAllowedHost(q.host, env.ALLOWED_HOSTS)
             /\ HasBadSegment(q.target) )
           => /\ normalizePath(q.target) # normalizePath(T_ROOT)
              /\ ~q.isRootRequest
              /\ Responded(q) /\ q.response.status = 404
              /\ q.reads = 0 /\ q.fetches = 0

\* An Asset Key as the data model describes it: one leading `/`, no empty
\* segment, no segment that starts or ends with whitespace.
WellFormedKey(key) ==
    /\ Len(key) >= 2 /\ key[1] = "/" /\ key[2] # "/"
    /\ LET segments == Tail(Split(key, "/"))
       IN \A i \in DOMAIN segments :
            /\ segments[i] # <<>>
            /\ segments[i][1] \notin WhiteSpace
            /\ segments[i][Len(segments[i])] \notin WhiteSpace

\* C9: normalizePath is idempotent on the keys it returns, and each key it
\* returns starts with a single `/` and has no empty segment and no segment
\* with leading or trailing whitespace.
C9_NormalizeIdempotent ==
    /\ ( probe.fn = "normalizePath" /\ probe.stage \in {"once", "twice"}
         /\ probe.out # Null )
       => WellFormedKey(probe.out)
    /\ ( probe.fn = "normalizePath" /\ probe.stage = "twice" )
       => probe.again = probe.out

\* C9 witness: a raw path that is not its own key, normalized twice.
C9_Witness ==
    /\ probe.fn = "normalizePath" /\ probe.stage = "twice"
    /\ probe.arg1 # probe.out
    /\ Includes(probe.arg1, <<" ">>)
    /\ probe.again = probe.out

\* C10: for a key that ends in `policy`, `host` or `.txt` in any mix of
\* case, inferContentType returns text/plain; charset=utf-8 for every
\* upstream hint, and so do prepareMetadata and the metadata of the put the
\* router schedules.
C10_TextKeysArePlainText ==
    ( probe.fn \in {"inferContentType", "prepareMetadata", "put"}
      /\ probe.stage = "once" /\ probe.word \in TextWords )
    => probe.out = TEXT_PLAIN

\* C10 witness: a mixed-case `.txt` key with an upstream type that is not
\* text/html, in the metadata of a put.
C10_Witness ==
    /\ probe.fn = "put" /\ probe.stage = "once"
    /\ probe.word = W_TXT
    /\ probe.arg1 # ToLowerCase(probe.arg1)
    /\ probe.arg2 = PGP_KEYS
    /\ probe.out = TEXT_PLAIN

\* The response a GET gets that differs from request q only in its method:
\* same host, same path, same cache read, same origin answer.
GetTwin(q) ==
    LET route == Route("GET", q.host, q.target, env)
    IN IF route.response # NoResponse THEN route.response
       ELSE IF CacheHit(q.cached)
       THEN HitResponse("GET", route.key, q.cached, route.isRootRequest)
       ELSE IF OriginExit(q.origin, route.isRootRequest) # NoResponse
       THEN OriginExit(q.origin, route.isRootRequest)
       ELSE OriginResponse("GET", route.key, q.origin, route.isRootRequest)

SameStatusAndHeaders(a, b) ==
    /\ a.status = b.status
    /\ a.contentType = b.contentType
    /\ a.cacheControl = b.cacheControl
    /\ a.cors = b.cors

\* C11: a HEAD request gets the status and the headers (Content-Type,
\* Cache-Control, CORS) of the GET request that differs from it only in the
\* method, and its response has no body, on the 200 path and on every error
\* path.
C11_HeadMatchesGet ==
    \A r \in Slots :
        LET q == req[r]
        IN /\ ( Responded(q) /\ q.method = "GET" ) => q.response = GetTwin(q)
           /\ ( Responded(q) /\ q.method = "HEAD" )
              => /\ SameStatusAndHeaders(q.response, GetTwin(q))
                 /\ q.response.body = NoBody

\* A cache read that returned a payload and no metadata.
ReadBareRecord(q) ==
    /\ q.reads = 1 /\ q.pc # "crashed"
    /\ q.cached.value # NoBody
    /\ Nullish(q.cached.metadata.contentType)

\* C12 as claimed: a cache read that returns a payload without metadata is
\* treated as a miss: the request goes on to the origin and is not answered
\* from the cached payload.
C12_BareRecordIsMiss ==
    \A r \in Slots :
        LET q == req[r]
        IN ReadBareRecord(q)
           => /\ q.pc = "fetch" \/ q.fetches = 1
              /\ Responded(q) => q.response.body # q.cached.value

\* C12 amended: a cache read that returns a payload without metadata is a
\* hit: the request is answered 200 from the cached payload, with no origin
\* fetch and no put, and with the content type inferContentType derives from
\* the key alone (text/plain; charset=utf-8 on a root request).
C12_BareRecordServedWithInferredType ==
    \A r \in Slots :
        LET q == req[r]
        IN ReadBareRecord(q)
           => /\ Responded(q) /\ q.response.status = 200
              /\ q.fetches = 0 /\ q.put.state = "none"
              /\ q.response.body = IF q.method = "HEAD" THEN NoBody
                                   ELSE q.cached.value
              /\ q.response.contentType =
                     IF q.isRootRequest THEN TEXT_PLAIN
                     ELSE inferContentType(q.key, Undefined)
              /\ FullCors(q.response)

\* C12 witness: a direct GET answered from a record without metadata, typed
\* by the key's suffix.
C12_Witness ==
    \E r \in Slots :
        /\ ReadBareRecord(req[r]) /\ Responded(req[r])
        /\ req[r].method = "GET" /\ ~req[r].isRootRequest
        /\ req[r].response.body = "S1"
        /\ req[r].response.contentType = OCTET_STREAM
        /\ req[r].fetches = 0

PutSettled(q) == q.put.state \in {"stored", "failed"}

\* A put is scheduled exactly by a request that missed and got 2xx, whose
\* response is then already returned and is the one computed from the origin
\* answer, whatever becomes of the put.
C13_ResponseSafe ==
    \A r \in Slots :
        LET q == req[r]
        IN /\ ( Responded(q) /\ q.fetches = 1 /\ OriginOk(q.origin.status) )
              => q.put.state # "none"
           /\ q.put.state # "none"
              => /\ Responded(q)
                 /\ q.response = OriginResponse(q.method, q.key, q.origin,
                                                q.isRootRequest)

\* While a put is pending nothing takes it down and nothing changes the
\* response, not the put's own outcome and not the client's abort.
C13_ResponseStep ==
    \A r \in Slots :
        req[r].put.state = "pending"
        => /\ req'[r].put.state \in {"pending", "stored", "failed"}
           /\ req'[r].response = req[r].response
           /\ req'[r].pc = "done"
           /\ req'[r].put.state = "failed" => kv' = kv

\* C13: on an origin success the response is returned while the put is still
\* pending and does not depend on the put's outcome, and every scheduled
\* put is run until it settles (stored, or rejected by the store), also
\* after the client has aborted the request.
C13_WriteDoesNotBlockAndSettles ==
    /\ []C13_ResponseSafe
    /\ [][C13_ResponseStep]_vars
    /\ \A r \in Slots :
          (req[r].put.state = "pending") ~> PutSettled(req[r])

\* C13 witness: the put of a request the client aborted while the put was
\* pending has stored the origin's bytes.
C13_Witness ==
    \E r \in Slots :
        /\ Responded(req[r]) /\ req[r].aborted
        /\ req[r].response.status = 200
        /\ req[r].put.state = "stored"
        /\ req[r].key \in DOMAIN kv
        /\ kv[req[r].key].value = req[r].origin.body

\* A request that missed the cache and got a 2xx answer from the mirror.
Populating(q) ==
    /\ Responded(q) /\ ~CacheHit(q.cached)
    /\ q.fetches = 1 /\ q.origin.kind = "response" /\ OriginOk(q.origin.status)

\* Two requests for one key to which the mirror returned the same payload
\* and the same content type.
SameAnswer(q1, q2) ==
    /\ Populating(q1) /\ Populating(q2)
    /\ q1.key = q2.key
    /\ q1.origin.body = q2.origin.body
    /\ q1.origin.contentType = q2.origin.contentType

C14_SameWrites ==
    \A r1, r2 \in Slots :
        LET q1 == req[r1]
            q2 == req[r2]
        IN SameAnswer(q1, q2)
           => /\ q1.put.state # "none" /\ q2.put.state # "none"
              /\ q1.put.key = q2.put.key
              /\ q1.put.value = q2.put.value
              /\ q1.put.value = q1.origin.body
              /\ q1.put.metadata = q2.put.metadata
              /\ q1.put.expirationTtl = q2.put.expirationTtl
              /\ q1.response.status = 200 /\ q2.response.status = 200
              /\ q1.method = "GET" => q1.response.body = q1.origin.body
              /\ q1.method = q2.method => q1.response.body = q2.response.body
              /\ ( /\ q1.put.state = "stored" /\ q2.put.state = "stored"
                    /\ q1.key \in DOMAIN kv
                    /\ kv[q1.key].source.body = q1.origin.body
                    /\ kv[q1.key].source.contentType = q1.origin.contentType )
                 => /\ kv[q1.key].value = q2.put.value
                    /\ kv[q1.key].metadata = q2.put.metadata

\* A put that lands on a record stored from the same payload and content
\* type leaves the record as it is: the order of such puts does not matter.
C14_RewriteStep ==
    \A r \in Slots :
        LET k == req[r].put.key
        IN ( /\ req[r].put.state = "pending" /\ req'[r].put.state = "stored"
             /\ k \in DOMAIN kv
             /\ kv[k].source.kind = "response"
             /\ kv[k].source.body = req[r].origin.body
             /\ kv[k].source.contentType = req[r].origin.contentType )
           => /\ DOMAIN kv' = DOMAIN kv
              /\ kv'[k].value = kv[k].value
              /\ kv'[k].metadata = kv[k].metadata
              /\ kv'[k].expirationTtl = kv[k].expirationTtl

\* C14: concurrent requests for one key, by the root path or directly, to
\* which the mirror returns the same payload and content type, each miss,
\* fetch and put on their own; their puts carry the same bytes, metadata
\* and TTL, a put on top of the other's record changes nothing, and their GET
\* responses carry the same body (a HEAD response carries none).
C14_ConcurrentPopulationIsIdempotent ==
    []C14_SameWrites /\ [][C14_RewriteStep]_vars

\* C14 witness: a root request and a direct request for the root object both
\* missed, both fetched, and both have stored the same record.
C14_Witness ==
    \E r1, r2 \in Slots :
        /\ r1 # r2 /\ SameAnswer(req[r1], req[r2])
        /\ req[r1].isRootRequest /\ ~req[r2].isRootRequest
        /\ req[r1].put.state = "stored" /\ req[r2].put.state = "stored"
        /\ req[r1].key \in DOMAIN kv
        /\ kv[req[r1].key].value = "B1"
        /\ kv[req[r1].key].metadata = req[r1].put.metadata

PutPendingFor(k) ==
    \E r \in Slots : req[r].put.state = "pending" /\ req[r].put.key = k

\* C15: once the puts for a key have settled, the record stored under it
\* holds the bytes of the most recent successful origin fetch for the key
\* (or the seeded bytes, when no fetched payload was written) and the
\* content type computed for that payload when it was written.
C15_RecordIsLatestFetch ==
    \A k \in DOMAIN kv :
        ( kv[k].source # SeedOrigin /\ ~PutPendingFor(k) )
        => /\ k \in DOMAIN originLog
           /\ kv[k].value = originLog[k].body
           /\ kv[k].metadata = prepareMetadata(k, originLog[k].contentType)

\* A normalized Asset Key: starts with `/`, has no empty segment, no `.` or
\* `..` segment and no null byte, and normalizePath maps it to itself.
NormalizedKey(key) ==
    /\ key # Null /\ Len(key) >= 2 /\ key[1] = "/"
    /\ LET segments == Tail(Split(key, "/"))
       IN \A i \in DOMAIN segments :
            segments[i] # <<>> /\ ~BadSegment(segments[i])
    /\ normalizePath(key) = key

\* C16: every key used for a cache read, an origin fetch or a put is a
\* normalized Asset Key, for every request path and every ROOT_OBJECT, the
\* keys resolved from the root object included.
C16_KeysAreNormalized ==
    \A r \in Slots :
        LET q == req[r]
        IN /\ ( q.reads > 0 \/ q.fetches > 0 \/ q.pc \in {"read", "fetch"} )
              => NormalizedKey(q.key)
           /\ q.put.state # "none" => NormalizedKey(q.put.key)

\* A GET or HEAD from an allowed host whose path the normalizer maps to
\* root.
RootPathRequest(q) ==
    /\ Arrived(q) /\ q.method \in {"GET", "HEAD"}
    /\ isAllowedHost(q.host, env.ALLOWED_HOSTS)
    /\ normalizePath(UrlPathname(q.target)) = Null

\* C17: when the path normalizes to root and ROOT_OBJECT is set to an empty
\* or whitespace-only string, the request is answered 404 with no cache
\* read, no origin fetch and no put; when ROOT_OBJECT is not set, the key is
\* /public-masterkey.asc and the request goes on to the cache lookup.
C17_EmptyRootObjectIs404 ==
    \A r \in Slots :
        LET q == req[r]
        IN RootPathRequest(q)
           => /\ ( env.ROOT_OBJECT # Undefined /\ Trim(env.ROOT_OBJECT) = <<>> )
                 => /\ Responded(q) /\ q.response.status = 404
                    /\ FullCors(q.response)
                    /\ q.reads = 0 /\ q.fetches = 0 /\ q.put.state = "none"
              /\ env.ROOT_OBJECT = Undefined
                 => /\ q.isRootRequest /\ q.key = DEFAULT_ROOT_OBJECT
                    /\ q.pc = "read" \/ q.reads = 1

\* C17 witness: `/` under a whitespace-only ROOT_OBJECT, answered 404
\* before any cache read.
C17_Witness ==
    \E r \in Slots :
        /\ RootPathRequest(req[r]) /\ Responded(req[r])
        /\ env.ROOT_OBJECT = <<" ">>
        /\ req[r].target = T_ROOT
        /\ req[r].response.status = 404
        /\ req[r].reads = 0 /\ req[r].fetches = 0

ThirtyDaysInSeconds == 30 * 24 * 60 * 60

\* Every put and every record written from the origin carries the 30-day
\* TTL; a request that reads a key whose record has expired misses, asks the
\* origin and, on 2xx, puts the record again.
C18_TtlAndRepopulation ==
    /\ \A r \in Slots :
          LET q == req[r]
          IN /\ q.put.state # "none"
                => /\ q.put.expirationTtl = KV_CACHE_TTL_SECONDS
                   /\ q.put.expirationTtl = ThirtyDaysInSeconds
             /\ q.expiredAtRead
                => /\ ~CacheHit(q.cached)
                   /\ q.pc \in {"fetch", "done", "crashed"}
                   /\ Responded(q) => q.fetches = 1
                   /\ ( Responded(q) /\ OriginOk(q.origin.status) )
                      => q.put.state # "none" /\ q.put.key = q.key
                   /\ ( q.put.state = "stored" /\ q.key \in DOMAIN kv )
                      => kv[q.key].value = q.origin.body
    /\ \A k \in DOMAIN kv :
          /\ kv[k].source.kind = "response"
             => kv[k].expirationTtl = ThirtyDaysInSeconds
          /\ k \notin life.expired

\* A record leaves the store only by the store's own expiry of a record
\* with a TTL, never by a step of the handler.
C18_NoDeleteStep ==
    (DOMAIN kv \ DOMAIN kv') # {}
    => \E k \in DOMAIN kv :
          /\ kv[k].expirationTtl > 0
          /\ kv' = Remove(kv, k)
          /\ req' = req
          /\ k \in life'.expired

\* C18: every record the router writes carries the fixed 30-day TTL, the
\* router never deletes a record, and once the record of a key has expired
\* the next request for the key is a miss, repeats the origin fallback and,
\* on origin 2xx, writes the record again.
C18_CacheEntryLifecycle ==
    []C18_TtlAndRepopulation /\ [][C18_NoDeleteStep]_vars

\* C18 witness: a request that read its key after the record had expired
\* has fetched the payload and stored the record again, with the TTL.
C18_Witness ==
    \E r \in Slots :
        /\ req[r].expiredAtRead /\ Responded(req[r])
        /\ req[r].fetches = 1 /\ req[r].put.state = "stored"
        /\ req[r].key \in DOMAIN kv
        /\ kv[req[r].key].value = req[r].origin.body
        /\ kv[req[r].key].expirationTtl = KV_CACHE_TTL_SECONDS

\* The Content-Type Resolver's result for a key and the content type the
\* mirror declared for it (none declared: no hint).
ResolvedType(key, origin) ==
    inferContentType(key, IF origin.contentType = Null THEN Undefined
                          ELSE origin.contentType)

\* The record under q's key was written by the put of a root request.
WrittenByRoot(q) ==
    /\ q.key \in DOMAIN kv /\ q.key \in DOMAIN life.writer
    /\ life.writer[q.key].isRootRequest

\* C19: the put of a root request carries the resolver's content type for
\* the key and the upstream hint, not the text/plain forced on its response;
\* a direct request answered from a record a root request wrote gets the
\* resolver's content type, the type of the record a direct request would
\* have written itself.
C19_ForcedTypeStaysOutOfCache ==
    \A r \in Slots :
        LET q == req[r]
        IN /\ ( Populating(q) /\ q.isRootRequest )
              => /\ q.response.contentType = TEXT_PLAIN
                 /\ q.put.state # "none"
                 /\ q.put.metadata.contentType = ResolvedType(q.key, q.origin)
                 /\ q.put = [OriginSuccess(q.method, q.key, q.origin, FALSE).put
                                EXCEPT !.state = q.put.state]
           /\ ( /\ Responded(q) /\ ~q.isRootRequest /\ CacheHit(q.cached)
                /\ WrittenByRoot(q) /\ q.cached = kv[q.key] )
              => /\ q.response.status = 200 /\ q.fetches = 0
                 /\ q.response.contentType = ResolvedType(q.key, q.cached.source)
                 /\ q.response.contentType =
                        OriginSuccess(q.method, q.key, q.cached.source,
                                      FALSE).response.contentType

\* C19 witness: `/` populated the cache from an application/pgp-keys answer
\* and a later direct GET for the root object is answered as
\* application/pgp-keys, not text/plain.
C19_Witness ==
    \E r \in Slots :
        /\ Responded(req[r]) /\ req[r].method = "GET"
        /\ ~req[r].isRootRequest /\ CacheHit(req[r].cached)
        /\ WrittenByRoot(req[r]) /\ req[r].cached = kv[req[r].key]
        /\ req[r].cached.source.contentType = PGP_KEYS
        /\ req[r].response.contentType = PGP_KEYS
        /\ req[r].response.body = "B1"

\* The record under q's key was written by the put of a HEAD request.
WrittenByHead(q) ==
    /\ q.key \in DOMAIN kv /\ q.key \in DOMAIN life.writer
    /\ life.writer[q.key].method = "HEAD"

\* C20: a HEAD that misses fetches the payload once and schedules the put a
\* GET would schedule, with the full bytes and the metadata, while its own
\* response has no body; a record written by a HEAD holds the full payload,
\* and a GET answered from it gets the complete body with no mirror fetch.
C20_HeadPopulatesFullPayload ==
    /\ \A r \in Slots :
          LET q == req[r]
          IN /\ ( Populating(q) /\ q.method = "HEAD" )
                => /\ q.fetches = 1
                   /\ q.response.status = 200 /\ q.response.body = NoBody
                   /\ q.put.state # "none"
                   /\ q.put.value = q.origin.body /\ q.put.value # NoBody
                   /\ q.put.metadata.contentType = ResolvedType(q.key, q.origin)
                   /\ q.put = [OriginSuccess("GET", q.key, q.origin,
                                             q.isRootRequest).put
                                  EXCEPT !.state = q.put.state]
             /\ ( /\ Responded(q) /\ q.method = "GET" /\ CacheHit(q.cached)
                  /\ WrittenByHead(q) /\ q.cached = kv[q.key] )
                => /\ q.response.status = 200
                   /\ q.response.body = q.cached.source.body
                   /\ q.response.body # NoBody
                   /\ q.fetches = 0 /\ q.put.state = "none"
    /\ \A k \in DOMAIN life.writer :
          ( life.writer[k].method = "HEAD" /\ k \in DOMAIN kv )
          => /\ kv[k].value = kv[k].source.body
             /\ kv[k].value # NoBody

\* C20 witness: a GET answered with the full body from the record a HEAD
\* request wrote.
C20_Witness ==
    \E r \in Slots :
        /\ Responded(req[r]) /\ req[r].method = "GET"
        /\ CacheHit(req[r].cached) /\ WrittenByHead(req[r])
        /\ req[r].cached = kv[req[r].key]
        /\ req[r].response.body = "B1"
        /\ req[r].fetches = 0

====
